---- MODULE Spec2Model ----
(***************************************************************************)
(* A model of the iota.rs client core:                                     *)
(*   - the node pool synchronizer (Client::start_sync_process,             *)
(*     Client::sync_nodes, Client::get_node, Drop for Client),             *)
(*   - the PoW provider (ClientMiner::nonce),                              *)
(*   - unspent address discovery (GetUnspentAddressBuilder::get),          *)
(*   - the message lifecycle (Client::retry / promote / reattach).         *)
(* Each subsystem has its own specification; the variables of the other    *)
(* subsystems stay at their initial values.                                *)
(***************************************************************************)
EXTENDS FiniteSets, Integers, Sequences, TLC

VARIABLES
    \* ---- node pool synchronizer -------------------------------------
    nodes,          \* Vec<Url>: the configured node list handed to the task
    sync,           \* Arc<RwLock<HashSet<Url>>>: the healthy set
    runtimeOwned,   \* the Client was built with a runtime of its own
                    \* (Client.runtime is Some(_) until drop takes it)
    clientPc,       \* "alive" | "sent" (drop: kill sent) | "shutdown" (drop: body
                    \* done, fields not yet dropped) | "dropped" | "panicked"
    senderAlive,    \* the broadcast Sender has not been dropped
    killChan,       \* kill messages queued for the task's Receiver
    taskPc,         \* "delay" | "probe" | "aborted"
    probeIdx,       \* position in `nodes` of the probe in flight (0: none)
    synced_nodes,   \* sync_nodes' local HashSet
    probeLog,       \* outcomes of the probes of the cycle in progress
    lastOutcomes,   \* outcomes of the probes of the last completed cycle
    killObserved,   \* the task's kill.recv() branch has completed with a message
    cycleAfterKill, \* a probe cycle was started after killObserved
    nodeRead,       \* what the last get_node() since the last replacement saw
    closedSeen,     \* the task's kill.recv() has returned Err(Closed)
    replaced,       \* the task has replaced the healthy set at least once
    dropLog,        \* what drop has done so far, in order
    cycleSync,      \* the healthy set when the last cycle started
    cycleWrites,    \* how often the last cycle has written the healthy set
    cancelled,      \* the cycle the kill branch cut short, until the next one starts
    delayElapsed,   \* the delay_for of the current loop iteration has run out
    \* ---- unspent address discovery (GetUnspentAddressBuilder) --------
    uPath,          \* self.path is Some(_)
    uStart,         \* self.index: "none" or Some(index)
    uBalance,       \* the ledger: balance of the address derived at each index
    uPc,            \* "start" | "await" (a balance query in flight) | "derive" | "done"
    uIndex,         \* the local `index`
    uBatch,         \* the local `addresses` of the batch being scanned
    uPos,           \* position in uBatch of the address whose balance is awaited
    uDerives,       \* the ranges handed to find_addresses, in order
    uQueries,       \* the addresses whose balance was queried, in order
    uResult,        \* the value returned by get()
    uFailed,        \* the request of the call that failed, if any
    \* ---- PoW provider ------------------------------------------------
    local_pow,      \* Client.local_pow
    powCalls,       \* nonce() calls made so far
    powLast,        \* the last nonce() call: its arguments and what it returned
    \* ---- message lifecycle (retry / promote / reattach) --------------
    tipGen,         \* the generation of the tips the nodes currently report
    prevPost,       \* the last post_message request of the earlier calls, if any,
                    \* and what it carried
    mOp,            \* the operation the caller invoked
    mBody,          \* the body being run: "promote" or "reattach" ("none": not yet)
    mPc,            \* the request in flight the call awaits, or "idle" / "done"
    mId,            \* the message_id argument
    mStartGen,      \* tipGen when the call began
    mIssueGen,      \* tipGen when the get_tips request in flight was issued
    mMeta,          \* retry: the metadata fetched, if any
    mOriginal,      \* reattach: the message fetched, if any
    mTips,          \* the local `tips`, if fetched
    mMessage,       \* the message built, if any
    mInfo,          \* the network-id string of the info fetched, if any
    mPost,          \* the post_message request this call has issued, if any
    mReqs,          \* the requests this call has issued, in order
    mResult,        \* what the call returned
    \* ---- get_network_id ----------------------------------------------
    nPc,            \* "idle" | "info" (the get_info request is in flight) | "done"
    nReq,           \* the node get_node handed to the request in flight, and the
                    \* healthy set it was taken from
    nResult,        \* what the call returned
    nPrev           \* what the last earlier call that returned Ok returned, if any

syncVars == <<nodes, sync, runtimeOwned, clientPc, senderAlive, killChan, taskPc,
              probeIdx, synced_nodes, probeLog, lastOutcomes, killObserved,
              cycleAfterKill, nodeRead, closedSeen, replaced, dropLog,
              cycleSync, cycleWrites, cancelled, delayElapsed>>

unspentVars == <<uPath, uStart, uBalance, uPc, uIndex, uBatch, uPos, uDerives,
                 uQueries, uResult, uFailed>>

powVars == <<local_pow, powCalls, powLast>>

msgVars == <<tipGen, prevPost, mOp, mBody, mPc, mId, mStartGen,
             mIssueGen, mMeta, mOriginal, mTips, mMessage, mInfo, mPost, mReqs, mResult>>

netVars == <<nPc, nReq, nResult, nPrev>>

vars == <<syncVars, unspentVars, powVars, msgVars, netVars>>

otherThanSync == <<unspentVars, powVars, msgVars, netVars>>

otherThanUnspent == <<syncVars, powVars, msgVars, netVars>>

otherThanPow == <<syncVars, unspentVars, msgVars, netVars>>

\* get_network_id reads the healthy set and leaves the rest of the Client alone
otherThanNet == <<syncVars, unspentVars, powVars, msgVars>>

\* the lifecycle calls read the healthy set and leave the rest of the Client alone
otherThanMsg == <<unspentVars, powVars, netVars, nodes, runtimeOwned, clientPc, senderAlive,
                  killChan, taskPc, probeIdx, synced_nodes, probeLog, killObserved,
                  cycleAfterKill, closedSeen, dropLog, cancelled, delayElapsed>>

\* what a sync cycle writes
poolVars == <<sync, lastOutcomes, replaced, nodeRead, cycleSync, cycleWrites>>

----------------------------------------------------------------------------
(* Bounds *)

\* longest configured node list
MaxNodes == 2

Urls == {"n1", "n2"}

\* Result<bool> of Client::get_node_health: Ok(true), Ok(false), Err(_)
Outcomes == {"healthy", "unhealthy", "error"}

RECURSIVE SeqsUpTo(_, _)
SeqsUpTo(S, n) ==
    IF n = 0 THEN {<<>>}
    ELSE LET shorter == SeqsUpTo(S, n - 1)
         IN  shorter \cup {Append(s, x) : s \in {t \in shorter : Len(t) = n - 1}, x \in S}

\* no cycle has been cut short
NoCancel == [done |-> -1, found |-> {}]

NoRead == [res |-> "none", url |-> "-", pool |-> {}]

----------------------------------------------------------------------------
(* Node pool synchronizer *)

\* variant: a failed probe counted as healthy, unwrap_or(true)
UnwrapOrTrue(outcome) == outcome # "unhealthy"

\* get_node_health(..).await.unwrap_or(false)
UnwrapOrFalse(outcome) == outcome = "healthy"

\* the body of the for loop of sync_nodes: insert the node when it is healthy
InsertIfHealthy(set, url, outcome) ==
    IF UnwrapOrFalse(outcome) THEN set \cup {url} ELSE set

\* the builder has run sync_nodes once before the Client is handed out
InitSync ==
    /\ nodes \in SeqsUpTo(Urls, MaxNodes)
    /\ lastOutcomes \in [1..Len(nodes) -> Outcomes]
    /\ sync = {nodes[i] : i \in {j \in 1..Len(nodes) : lastOutcomes[j] = "healthy"}}
    /\ runtimeOwned \in BOOLEAN
    /\ clientPc = "alive"
    /\ senderAlive = TRUE
    /\ killChan = 0
    /\ taskPc = "delay"
    /\ probeIdx = 0
    /\ synced_nodes = {}
    /\ probeLog = <<>>
    /\ killObserved = FALSE
    /\ cycleAfterKill = FALSE
    /\ nodeRead = NoRead
    /\ closedSeen = FALSE
    /\ replaced = FALSE
    /\ dropLog = <<>>
    /\ cycleSync = sync
    /\ cycleWrites = 0
    /\ cancelled = NoCancel
    /\ delayElapsed = FALSE

\* kill.recv() is ready: a message is queued, or the channel is closed
RecvReady == killChan > 0 \/ ~senderAlive

\* the timer of the iteration's delay_for(node_sync_interval) runs out, one
\* interval after the iteration began. Once kill.recv() has answered Err(Closed)
\* it answers so at once in every later iteration, and the delay, created anew
\* in each of them, is dropped before it can run out
DelayElapses ==
    /\ UNCHANGED <<otherThanSync, dropLog, cycleSync, cycleWrites, cancelled>>
    /\ taskPc = "delay"
    /\ ~delayElapsed
    /\ ~closedSeen
    /\ delayElapsed' = TRUE
    /\ UNCHANGED <<nodes, sync, runtimeOwned, clientPc, senderAlive, killChan, taskPc,
                   probeIdx, synced_nodes, probeLog, lastOutcomes, killObserved,
                   cycleAfterKill, nodeRead, closedSeen, replaced>>

\* the sync_nodes future dropped by the select: how many probes it had finished
\* and what it had collected
Cancelled(done, found) == [done |-> done, found |-> found]

\* the select's kill.recv() branch completes, with a message or with Err(Closed):
\* the other branch is dropped (a sync_nodes in flight with it, having finished
\* `done` probes and collected `found`) and the loop iterates with a new delay.
\* In the same poll the next iteration takes the branch again for as long as
\* kill.recv() is ready: the messages queued are received, and behind them
\* Err(Closed) when the Sender is gone
KillBranch(inFlight, done, found) ==
    /\ killChan' = 0
    /\ killObserved' = (killObserved \/ killChan > 0)
    /\ closedSeen' = (closedSeen \/ ~senderAlive)
    /\ cancelled' = IF inFlight THEN Cancelled(done, found) ELSE cancelled
    /\ taskPc' = "delay"
    /\ probeIdx' = 0
    /\ synced_nodes' = {}
    /\ probeLog' = <<>>
    /\ delayElapsed' = FALSE

\* variant: sync_nodes is not held back by the delay
DelayForSkipped(elapsed) == TRUE

\* delay_for(node_sync_interval).await: ready once the timer has run out
DelayFor(elapsed) == elapsed

\* the task is polled after its delay_for has run out, the select polls the timer
\* branch first, and sync_nodes starts: with an empty node list the replacement
\* follows at once and the loop iterates, otherwise the first probe is issued.
\* When kill.recv() is ready in the same poll, its branch completes next: a probe
\* just issued is dropped with the sync_nodes future
TimerFires ==
    /\ UNCHANGED <<otherThanSync, dropLog>>
    /\ taskPc = "delay"
    /\ DelayFor(delayElapsed)
    /\ cycleSync' = sync
    /\ cycleAfterKill' = (cycleAfterKill \/ killObserved)
    /\ IF Len(nodes) = 0
         THEN /\ sync' = {}
              /\ lastOutcomes' = <<>>
              /\ nodeRead' = NoRead
              /\ replaced' = TRUE
              /\ cycleWrites' = 1
              /\ IF RecvReady
                   THEN KillBranch(FALSE, 0, {})
                   ELSE /\ cancelled' = NoCancel
                        /\ delayElapsed' = FALSE
                        /\ UNCHANGED <<taskPc, probeIdx, synced_nodes, probeLog,
                                       killChan, killObserved, closedSeen>>
         ELSE /\ cycleWrites' = 0
              /\ UNCHANGED <<sync, lastOutcomes, nodeRead, replaced>>
              /\ IF RecvReady
                   THEN KillBranch(TRUE, 0, {})
                   ELSE /\ taskPc' = "probe"
                        /\ probeIdx' = 1
                        /\ synced_nodes' = {}
                        /\ probeLog' = <<>>
                        /\ cancelled' = NoCancel
                        /\ delayElapsed' = FALSE
                        /\ UNCHANGED <<killChan, killObserved, closedSeen>>
    /\ UNCHANGED <<nodes, runtimeOwned, clientPc, senderAlive>>

\* variant: every healthy answer is written to the shared set at once, instead of
\* being collected in synced_nodes and written after the last probe
ProbeDoneTorn ==
    /\ UNCHANGED <<otherThanSync, dropLog, cycleSync>>
    /\ taskPc = "probe"
    /\ \E outcome \in Outcomes :
         LET found == InsertIfHealthy(synced_nodes, nodes[probeIdx], outcome)
             log   == Append(probeLog, outcome)
         IN  IF probeIdx < Len(nodes)
               THEN /\ sync' = found
                    /\ cycleWrites' = cycleWrites + 1
                    /\ UNCHANGED <<lastOutcomes, nodeRead, replaced>>
                    /\ IF RecvReady
                         THEN KillBranch(TRUE, probeIdx, found)
                         ELSE /\ synced_nodes' = found
                              /\ probeLog' = log
                              /\ probeIdx' = probeIdx + 1
                              /\ UNCHANGED <<taskPc, killChan, killObserved, closedSeen,
                                             cancelled, delayElapsed>>
               ELSE /\ sync' = found
                    /\ cycleWrites' = cycleWrites + 1
                    /\ lastOutcomes' = log
                    /\ nodeRead' = NoRead
                    /\ replaced' = TRUE
                    /\ IF RecvReady
                         THEN KillBranch(FALSE, 0, {})
                         ELSE /\ taskPc' = "delay"
                              /\ probeIdx' = 0
                              /\ synced_nodes' = {}
                              /\ probeLog' = <<>>
                              /\ UNCHANGED <<killChan, killObserved, closedSeen, cancelled,
                                             delayElapsed>>
    /\ UNCHANGED <<nodes, runtimeOwned, clientPc, senderAlive, cycleAfterKill>>

\* variant: a failed probe ends sync_nodes at once, as get_node_health(..).await?
\* would, and the loop goes back to the select without a replacement
ProbeDoneAbort ==
    /\ UNCHANGED <<otherThanSync, dropLog, cycleSync>>
    /\ taskPc = "probe"
    /\ \E outcome \in Outcomes :
         LET found == InsertIfHealthy(synced_nodes, nodes[probeIdx], outcome)
             log   == Append(probeLog, outcome)
         IN  IF outcome = "error"
               THEN /\ UNCHANGED <<sync, lastOutcomes, nodeRead, replaced,
                                   cycleWrites>>
                    /\ IF RecvReady
                         THEN KillBranch(FALSE, 0, {})
                         ELSE /\ taskPc' = "delay"
                              /\ probeIdx' = 0
                              /\ synced_nodes' = {}
                              /\ probeLog' = <<>>
                              /\ UNCHANGED <<killChan, killObserved, closedSeen, cancelled,
                                             delayElapsed>>
               ELSE IF probeIdx < Len(nodes)
                 THEN /\ UNCHANGED <<sync, lastOutcomes, nodeRead, replaced,
                                     cycleWrites>>
                      /\ IF RecvReady
                           THEN KillBranch(TRUE, probeIdx, found)
                           ELSE /\ synced_nodes' = found
                                /\ probeLog' = log
                                /\ probeIdx' = probeIdx + 1
                                /\ UNCHANGED <<taskPc, killChan, killObserved, closedSeen,
                                               cancelled, delayElapsed>>
                 ELSE /\ sync' = found
                      /\ cycleWrites' = cycleWrites + 1
                      /\ lastOutcomes' = log
                      /\ nodeRead' = NoRead
                      /\ replaced' = TRUE
                      /\ IF RecvReady
                           THEN KillBranch(FALSE, 0, {})
                           ELSE /\ taskPc' = "delay"
                                /\ probeIdx' = 0
                                /\ synced_nodes' = {}
                                /\ probeLog' = <<>>
                                /\ UNCHANGED <<killChan, killObserved, closedSeen, cancelled,
                                               delayElapsed>>
    /\ UNCHANGED <<nodes, runtimeOwned, clientPc, senderAlive, cycleAfterKill>>

\* the task is polled with the answer of the probe in flight and the select polls
\* the sync_nodes branch first: the next probe is issued, or after the last one
\* the healthy set is replaced and the loop iterates with a new delay. When
\* kill.recv() is ready in the same poll, its branch completes next: a probe just
\* issued is dropped with the sync_nodes future
ProbeDone ==
    /\ UNCHANGED <<otherThanSync, dropLog, cycleSync>>
    /\ taskPc = "probe"
    /\ \E outcome \in Outcomes :
         LET found == InsertIfHealthy(synced_nodes, nodes[probeIdx], outcome)
             log   == Append(probeLog, outcome)
         IN  IF probeIdx < Len(nodes)
               THEN /\ UNCHANGED <<sync, lastOutcomes, nodeRead, replaced,
                                   cycleWrites>>
                    /\ IF RecvReady
                         THEN KillBranch(TRUE, probeIdx, found)
                         ELSE /\ synced_nodes' = found
                              /\ probeLog' = log
                              /\ probeIdx' = probeIdx + 1
                              /\ UNCHANGED <<taskPc, killChan, killObserved, closedSeen,
                                             cancelled, delayElapsed>>
               ELSE /\ sync' = found
                    /\ cycleWrites' = cycleWrites + 1
                    /\ lastOutcomes' = log
                    /\ nodeRead' = NoRead
                    /\ replaced' = TRUE
                    /\ IF RecvReady
                         THEN KillBranch(FALSE, 0, {})
                         ELSE /\ taskPc' = "delay"
                              /\ probeIdx' = 0
                              /\ synced_nodes' = {}
                              /\ probeLog' = <<>>
                              /\ UNCHANGED <<killChan, killObserved, closedSeen, cancelled,
                                             delayElapsed>>
    /\ UNCHANGED <<nodes, runtimeOwned, clientPc, senderAlive, cycleAfterKill>>

\* variant: a sync_nodes cut short writes what it has collected so far
KillObservedFlush ==
    /\ UNCHANGED <<otherThanSync, dropLog, cycleSync>>
    /\ taskPc \in {"delay", "probe"}
    /\ killChan > 0
    /\ KillBranch(taskPc = "probe", probeIdx - 1, synced_nodes)
    /\ sync' = IF taskPc = "probe" THEN synced_nodes ELSE sync
    /\ cycleWrites' = IF taskPc = "probe" THEN cycleWrites + 1 ELSE cycleWrites
    /\ UNCHANGED <<nodes, runtimeOwned, clientPc, senderAlive, lastOutcomes,
                   cycleAfterKill, nodeRead, replaced>>

\* the task is polled and the select's kill.recv() branch completes with a
\* message: the other branch (delay, or sync_nodes with its probe in flight) is
\* dropped, and the loop iterates
KillObserved ==
    /\ UNCHANGED <<otherThanSync, dropLog, cycleSync, cycleWrites>>
    /\ taskPc \in {"delay", "probe"}
    /\ killChan > 0
    /\ KillBranch(taskPc = "probe", probeIdx - 1, synced_nodes)
    /\ UNCHANGED <<nodes, sync, runtimeOwned, clientPc, senderAlive, lastOutcomes,
                   cycleAfterKill, nodeRead, replaced>>

\* the task is polled and the select's kill.recv() branch completes with
\* Err(Closed), which the pattern `_` matches: the other branch (delay, or
\* sync_nodes with its probe in flight) is dropped without a write to the pool,
\* and the loop iterates
RecvClosed ==
    /\ UNCHANGED <<otherThanSync, dropLog, cycleSync, cycleWrites>>
    /\ taskPc \in {"delay", "probe"}
    /\ killChan = 0
    /\ ~senderAlive
    /\ KillBranch(taskPc = "probe", probeIdx - 1, synced_nodes)
    /\ UNCHANGED <<nodes, sync, runtimeOwned, clientPc, senderAlive, lastOutcomes,
                   cycleAfterKill, nodeRead, replaced>>

\* variant: a node is picked among the configured addresses, whatever the pool holds
GetNodeResultsAnyUrl(pool) == {[res |-> "ok", url |-> u] : u \in Urls}

\* pool.iter().next().ok_or(SyncedNodePoolEmpty)
GetNodeResults(pool) ==
    IF pool = {} THEN {[res |-> "empty", url |-> "-"]}
    ELSE {[res |-> "ok", url |-> u] : u \in pool}

\* variant: the node handed out is taken out of the pool
GetNodeTake ==
    /\ UNCHANGED <<otherThanSync, dropLog, cycleSync, cycleWrites, cancelled,
                   delayElapsed>>
    /\ clientPc = "alive"
    /\ \E r \in GetNodeResults(sync) :
         /\ nodeRead' = [res |-> r.res, url |-> r.url, pool |-> sync]
         /\ sync' = sync \ {r.url}
    /\ UNCHANGED <<nodes, runtimeOwned, clientPc, senderAlive, killChan, taskPc,
                   probeIdx, synced_nodes, probeLog, lastOutcomes, killObserved,
                   cycleAfterKill, closedSeen, replaced>>

\* get_node: the pool is read under the read lock
GetNode ==
    /\ UNCHANGED <<otherThanSync, dropLog, cycleSync, cycleWrites, cancelled,
                   delayElapsed>>
    /\ clientPc = "alive"
    /\ \E r \in GetNodeResults(sync) :
         nodeRead' = [res |-> r.res, url |-> r.url, pool |-> sync]
    /\ UNCHANGED <<nodes, sync, runtimeOwned, clientPc, senderAlive, killChan, taskPc,
                   probeIdx, synced_nodes, probeLog, lastOutcomes, killObserved,
                   cycleAfterKill, closedSeen, replaced>>

\* the task, and with it the Receiver it owns, has not been dropped
ReceiverLive == taskPc # "aborted"

\* broadcast Sender::send: Err when there is no live Receiver
SendResult(receiverLive) == IF receiverLive THEN "ok" ELSE "err"

\* variant: the result of send is discarded
ExpectIgnored(result) == "sent"

\* .expect("failed to stop syncing process")
Expect(result) == IF result = "ok" THEN "sent" ELSE "panicked"

\* drop, first statement: sync_kill_sender.clone().send(()).expect(..); on a
\* panic the rest of drop is skipped and the fields are dropped by the unwinding
DropSend ==
    /\ UNCHANGED <<otherThanSync, cycleSync, cycleWrites, cancelled,
                   delayElapsed>>
    /\ clientPc = "alive"
    /\ LET result == SendResult(ReceiverLive)
       IN  /\ clientPc' = Expect(result)
           /\ IF result = "ok"
                THEN /\ killChan' = killChan + 1
                     /\ dropLog' = Append(dropLog, "send")
                     /\ UNCHANGED senderAlive
                ELSE /\ dropLog' = Append(dropLog, "send_failed")
                     /\ senderAlive' = (Expect(result) # "panicked")
                     /\ UNCHANGED killChan
    /\ UNCHANGED <<nodes, sync, runtimeOwned, taskPc, probeIdx,
                   synced_nodes, probeLog, lastOutcomes, killObserved, cycleAfterKill,
                   nodeRead, closedSeen, replaced>>

\* drop, second statement: if let Some(runtime) = self.runtime.take() tells an
\* owned runtime to shut down (shutdown_background only signals and returns);
\* the fields of the Client, the Sender among them, are still in place
DropRuntimeTake ==
    /\ UNCHANGED <<otherThanSync, cycleSync, cycleWrites, cancelled,
                   delayElapsed>>
    /\ clientPc = "sent"
    /\ clientPc' = "shutdown"
    /\ dropLog' = IF runtimeOwned THEN Append(dropLog, "shutdown") ELSE dropLog
    /\ UNCHANGED <<nodes, sync, runtimeOwned, senderAlive, killChan, taskPc,
                   probeIdx, synced_nodes, probeLog, lastOutcomes, killObserved,
                   cycleAfterKill, nodeRead, closedSeen, replaced>>

\* after the body of drop the fields of the Client are dropped: the Sender goes
DropTeardown ==
    /\ UNCHANGED <<otherThanSync, dropLog, cycleSync, cycleWrites, cancelled,
                   delayElapsed>>
    /\ clientPc = "shutdown"
    /\ clientPc' = "dropped"
    /\ senderAlive' = FALSE
    /\ UNCHANGED <<nodes, sync, runtimeOwned, killChan, taskPc, probeIdx,
                   synced_nodes, probeLog, lastOutcomes, killObserved,
                   cycleAfterKill, nodeRead, closedSeen, replaced>>

\* a worker thread of the owned runtime acts on the shutdown signal and drops the
\* task, and the Receiver with it, at any time after shutdown_background has
\* signalled: before the Sender is dropped or after
RuntimeShutdownBackground ==
    /\ UNCHANGED <<otherThanSync, dropLog, cycleSync, cycleWrites, cancelled,
                   delayElapsed>>
    /\ runtimeOwned
    /\ clientPc \in {"shutdown", "dropped"}
    /\ taskPc \in {"delay", "probe"}
    /\ taskPc' = "aborted"
    /\ probeIdx' = 0
    /\ synced_nodes' = {}
    /\ probeLog' = <<>>
    /\ UNCHANGED <<nodes, sync, runtimeOwned, clientPc, senderAlive, killChan,
                   lastOutcomes, killObserved, cycleAfterKill, nodeRead, closedSeen,
                   replaced>>

\* a runtime the Client does not own (runtime: None) is shut down by its owner:
\* the task spawned on it is dropped, and the Receiver with it
ExternalRuntimeShutdown ==
    /\ UNCHANGED <<otherThanSync, dropLog, cycleSync, cycleWrites, cancelled,
                   delayElapsed>>
    /\ ~runtimeOwned
    /\ taskPc \in {"delay", "probe"}
    /\ taskPc' = "aborted"
    /\ probeIdx' = 0
    /\ synced_nodes' = {}
    /\ probeLog' = <<>>
    /\ UNCHANGED <<nodes, sync, runtimeOwned, clientPc, senderAlive, killChan,
                   lastOutcomes, killObserved, cycleAfterKill, nodeRead, closedSeen,
                   replaced>>

----------------------------------------------------------------------------
(* Unspent address discovery: GetUnspentAddressBuilder::get *)

\* range(index..index + 20)
BatchSize == 20

\* largest index handed to the builder
MaxStart == 2

\* the ledger holds balances for the indices of MaxBatches batches past MaxStart
MaxBatches == 2

WorldSize == MaxStart + BatchSize * MaxBatches

World == 0..(WorldSize - 1)

None == <<>>

Some(x) == <<x>>

\* the sets of indices whose address has balance 0: at most two of them
ZeroSets == {{}} \cup {{a, b} : a \in World, b \in World}

\* the balance of a used address
Fill(j) == IF j % 3 = 2 THEN 3 ELSE 5

\* derive(seed, path, index): the address at an index of the wallet chain
Derive(i) == <<"addr", i>>

NoAddress == Derive(-1)

\* find_addresses(seed).path(path).range(lo..hi).get(): the addresses lo..hi-1
AddressRange(lo, hi) == [k \in 1..(hi - lo) |-> Derive(lo + k - 1)]

\* get_address().balance(&a): the node's answer for an address
BalanceOf(a) == uBalance[a[2]]

NoResult == [kind |-> "none", address |-> NoAddress, index |-> 0, error |-> "-"]

UOk(a, i) == [kind |-> "ok", address |-> a, index |-> i, error |-> "-"]

UErr(e) == [kind |-> "err", address |-> NoAddress, index |-> 0, error |-> e]

InitUnspentInputs ==
    /\ uPath \in BOOLEAN
    /\ uStart \in {None} \cup {Some(i) : i \in 0..MaxStart}
    /\ \E Z \in ZeroSets : uBalance = [j \in World |-> IF j \in Z THEN 0 ELSE Fill(j)]
    /\ uPc = "start"
    /\ uIndex = 0
    /\ uBatch = <<>>
    /\ uPos = 0
    /\ uDerives = <<>>
    /\ uQueries = <<>>
    /\ uResult = NoResult
    /\ uFailed = None

IdleUnspent ==
    /\ uPath = FALSE
    /\ uStart = None
    /\ uBalance = <<>>
    /\ uPc = "idle"
    /\ uIndex = 0
    /\ uBatch = <<>>
    /\ uPos = 0
    /\ uDerives = <<>>
    /\ uQueries = <<>>
    /\ uResult = NoResult
    /\ uFailed = None

\* variant: a missing path is not rejected
PathSuppliedAlways(path) == TRUE

\* match self.path { Some(p) => p, None => return Err(MissingParameter(..)) }
PathSupplied(path) == path

\* match self.index { Some(r) => r, None => 0 }
IndexOrDefault(index) == IF index = None THEN 0 ELSE index[1]

\* variant: the index is advanced before the balance is looked at
IndexAfterAlways(index, balance) == index + 1

\* match address_balance { 0 => break, _ => index += 1 }
IndexAfter(index, balance) == IF balance = 0 THEN index ELSE index + 1

\* variant: the scan gives up after one batch
AfterBatchOnce(found) == "done"

\* if let Some(a) = address { break (a, index) }, else the loop iterates
AfterBatch(found) == IF found THEN "done" ELSE "derive"

\* variant: the batch is asked for from the first index again
NextRangeRestart(index) == <<IndexOrDefault(uStart), IndexOrDefault(uStart) + BatchSize>>

\* the range handed to find_addresses: index..index + 20
NextRange(index) == <<index, index + BatchSize>>

\* the body of the loop up to its first await: find_addresses(..).range(index..
\* index + 20).get()? derives the batch, and the balance query of its first
\* address is issued. A scan that would leave the modelled ledger stops before
\* the derivation
UFindAddresses(index) ==
    IF index + BatchSize <= WorldSize
      THEN /\ uDerives' = Append(uDerives, NextRange(index))
           /\ \/ /\ uBatch' = AddressRange(NextRange(index)[1], NextRange(index)[2])
                 /\ uPos' = 1
                 /\ uQueries' = Append(uQueries, Derive(NextRange(index)[1]))
                 /\ uPc' = "await"
                 /\ UNCHANGED <<uResult, uFailed>>
              \/ /\ uFailed' = Some(<<"find_addresses", Derive(index)>>)
                 /\ uResult' = UErr("find_addresses")
                 /\ uPc' = "done"
                 /\ UNCHANGED <<uBatch, uPos, uQueries>>
      ELSE /\ uPc' = "derive"
           /\ uPos' = 0
           /\ UNCHANGED <<uBatch, uDerives, uQueries, uResult, uFailed>>

\* the first poll of get(): the path check, the initial index, the first batch
\* and the balance query of its first address
UStart ==
    /\ UNCHANGED otherThanUnspent
    /\ uPc = "start"
    /\ IF PathSupplied(uPath)
         THEN /\ uIndex' = IndexOrDefault(uStart)
              /\ UFindAddresses(IndexOrDefault(uStart))
         ELSE /\ uResult' = UErr("MissingParameter(BIP32 path)")
              /\ uPc' = "done"
              /\ UNCHANGED <<uIndex, uBatch, uPos, uDerives, uQueries, uFailed>>
    /\ UNCHANGED <<uPath, uStart, uBalance>>

\* variant: an address whose balance query fails is passed over like a used one
UBalanceSkip ==
    /\ UNCHANGED otherThanUnspent
    /\ uPc = "await"
    /\ LET a == uBatch[uPos]
       IN  \/ /\ uIndex' = uIndex + 1
                 /\ uFailed' = Some(<<"balance", a>>)
                 /\ UNCHANGED uResult
                 /\ IF uPos < Len(uBatch)
                      THEN /\ uPos' = uPos + 1
                           /\ uQueries' = Append(uQueries, uBatch[uPos + 1])
                           /\ UNCHANGED <<uPc, uBatch, uDerives>>
                      ELSE /\ uPos' = 0
                           /\ uPc' = "derive"
                           /\ UNCHANGED <<uBatch, uDerives, uQueries>>
           \/ LET balance == BalanceOf(a)
                  index   == IndexAfter(uIndex, balance)
              IN  /\ uIndex' = index
                  /\ IF balance = 0
                       THEN /\ uResult' = UOk(a, index)
                            /\ uPc' = AfterBatch(TRUE)
                            /\ UNCHANGED <<uPos, uBatch, uDerives, uQueries, uFailed>>
                       ELSE IF uPos < Len(uBatch)
                         THEN /\ uPos' = uPos + 1
                              /\ uQueries' = Append(uQueries, uBatch[uPos + 1])
                              /\ UNCHANGED <<uPc, uResult, uBatch, uDerives, uFailed>>
                         ELSE IF AfterBatch(FALSE) = "derive"
                           THEN UFindAddresses(index)
                           ELSE /\ uPc' = AfterBatch(FALSE)
                                /\ UNCHANGED <<uPos, uResult, uBatch, uDerives,
                                               uQueries, uFailed>>
    /\ UNCHANGED <<uPath, uStart, uBalance>>

\* get() is polled with the answer of the balance query in flight: a failure is
\* returned, balance 0 ends the scan, and otherwise the index moves on and the
\* query of the next address is issued, of a new batch when this one is used up
UBalance ==
    /\ UNCHANGED otherThanUnspent
    /\ uPc = "await"
    /\ LET a == uBatch[uPos]
       IN  \/ /\ uFailed' = Some(<<"balance", a>>)
                 /\ uResult' = UErr("balance")
                 /\ uPc' = "done"
                 /\ UNCHANGED <<uIndex, uPos, uBatch, uDerives, uQueries>>
           \/ LET balance == BalanceOf(a)
                  index   == IndexAfter(uIndex, balance)
              IN  /\ uIndex' = index
                  /\ IF balance = 0
                       THEN /\ uResult' = UOk(a, index)
                            /\ uPc' = AfterBatch(TRUE)
                            /\ UNCHANGED <<uPos, uBatch, uDerives, uQueries, uFailed>>
                       ELSE IF uPos < Len(uBatch)
                         THEN /\ uPos' = uPos + 1
                              /\ uQueries' = Append(uQueries, uBatch[uPos + 1])
                              /\ UNCHANGED <<uPc, uResult, uBatch, uDerives, uFailed>>
                         ELSE IF AfterBatch(FALSE) = "derive"
                           THEN UFindAddresses(index)
                           ELSE /\ uPc' = AfterBatch(FALSE)
                                /\ UNCHANGED <<uPos, uResult, uBatch, uDerives,
                                               uQueries, uFailed>>
    /\ UNCHANGED <<uPath, uStart, uBalance>>

----------------------------------------------------------------------------
(* PoW provider: ClientMinerBuilder, ClientMiner *)

\* payloads are numbered 1..MaxPayload
MaxPayload == 3

\* target scores are 0..MaxTarget
MaxTarget == 3

\* the nonces the miner's workers search are 0..MaxNonce
MaxNonce == 7

\* nonce() calls in one behaviour
MaxPowCalls == 2

\* the hash of payload || nonce, three bits wide
PowHash(payload, nonce) == (payload * 5 + nonce * 3) % 8

\* the scoring function: the trailing zero bits of the hash
Score(payload, nonce) ==
    LET h == PowHash(payload, nonce)
    IN  IF h = 0 THEN 3 ELSE IF h % 4 = 0 THEN 2 ELSE IF h % 2 = 0 THEN 1 ELSE 0

POk(n, searches) == [kind |-> "ok", nonce |-> n, error |-> "-", searches |-> searches]

PErr(e, searches) == [kind |-> "err", nonce |-> 0, error |-> e, searches |-> searches]

\* MinerBuilder::new().with_num_workers(..).finish().nonce(bytes, target_score):
\* whichever worker first finds a qualifying nonce wins, or the search fails
MinerNonce(payload, target) ==
    {POk(n, 1) : n \in {m \in 0..MaxNonce : Score(payload, m) >= target}}
        \cup {PErr("miner", 1)}

\* .map_err(|e| crate::Error::Pow(e.to_string()))
MapErrPow(r) == IF r.kind = "err" THEN PErr("Pow", r.searches) ELSE r

\* variant: the local_pow test inverted
ClientMinerNonceInverted(local, payload, target) ==
    IF ~local
      THEN {MapErrPow(r) : r \in MinerNonce(payload, target)}
      ELSE {POk(0, 0)}

\* ClientMiner::nonce
ClientMinerNonce(local, payload, target) ==
    IF local
      THEN {MapErrPow(r) : r \in MinerNonce(payload, target)}
      ELSE {POk(0, 0)}

\* ClientMinerBuilder::new().with_local_pow(self.local_pow).finish()
GetPowProvider(client_local_pow) == [local_pow |-> client_local_pow]

NoPow == [payload |-> 0, target |-> 0, kind |-> "none", nonce |-> 0, error |-> "-",
          searches |-> 0]

InitPowInputs ==
    /\ local_pow \in BOOLEAN
    /\ powCalls = 0
    /\ powLast = NoPow

IdlePow ==
    /\ local_pow = FALSE
    /\ powCalls = 0
    /\ powLast = NoPow

\* client.get_pow_provider().nonce(payload, target_score)
PowNonce ==
    /\ UNCHANGED otherThanPow
    /\ powCalls < MaxPowCalls
    /\ powCalls' = powCalls + 1
    /\ \E payload \in 1..MaxPayload, target \in 0..MaxTarget :
         \E r \in ClientMinerNonce(GetPowProvider(local_pow).local_pow, payload, target) :
            powLast' = [payload |-> payload, target |-> target, kind |-> r.kind,
                        nonce |-> r.nonce, error |-> r.error, searches |-> r.searches]
    /\ UNCHANGED local_pow

----------------------------------------------------------------------------
(* Message lifecycle: Client::retry, Client::promote, Client::reattach *)

\* the tips reported by the nodes change at most MaxTipGen times
MaxTipGen == 1

\* the message ids handed to the calls
MsgIds == {<<"msg", 1>>, <<"msg", 2>>}

\* the ids a node answers a post with
NewIds == {<<"new", 1>>}

Payloads == {"transaction", "indexation"}

\* the network-id strings a node's info reports
NetworkNames == {"alphanet1", "testnet"}

\* the tips (tip1, tip2) of a generation
TipsAt(g) == <<(<<"tip", 2 * g + 1>>), (<<"tip", 2 * g + 2>>)>>

\* VarBlake2b::new(32) over info.network_id.as_bytes(): result[0..8]
Blake2b256Head(name) ==
    CASE name = "alphanet1" -> <<16, 255, 159, 217, 95, 187, 160, 90>>
      [] name = "testnet"   -> <<251, 92, 68, 239, 13, 58, 200, 115>>

\* u64::from_le_bytes, as four 16-bit limbs, least significant first
U64FromLeBytes(b) ==
    <<b[1] + 256 * b[2], b[3] + 256 * b[4], b[5] + 256 * b[6], b[7] + 256 * b[8]>>

\* str::as_bytes: the UTF-8 bytes of a network-id string
AsBytes(name) ==
    CASE name = "alphanet1" -> <<97, 108, 112, 104, 97, 110, 101, 116, 49>>
      [] name = "testnet"   -> <<116, 101, 115, 116, 110, 101, 116>>

\* VarBlake2b::new(output_size): a hasher that has absorbed nothing
VarBlake2bNew(output_size) == [output_size |-> output_size, input |-> <<>>]

\* hasher.update(data): the hasher absorbs the bytes after those it holds
Update(hasher, data) == [hasher EXCEPT !.input = @ \o data]

\* the BLAKE2b digest of the given size of the byte strings the model hashes
Blake2b(output_size, input) ==
    CASE output_size = 32 /\ input = AsBytes("alphanet1") ->
           <<16, 255, 159, 217, 95, 187, 160, 90, 66, 93, 187, 32, 241, 186, 95, 246,
             204, 156, 64, 14, 122, 14, 130, 63, 79, 51, 222, 24, 111, 83, 41, 208>>
      [] output_size = 32 /\ input = AsBytes("testnet") ->
           <<251, 92, 68, 239, 13, 58, 200, 115, 112, 117, 27, 219, 130, 128, 174, 47,
             103, 244, 75, 93, 56, 174, 135, 37, 22, 58, 118, 85, 43, 166, 14, 62>>
      [] output_size = 32 /\ input = AsBytes("alphanet1") \o AsBytes("alphanet1") ->
           <<223, 231, 89, 223, 63, 45, 108, 93, 183, 104, 82, 212, 28, 115, 172, 225,
             38, 156, 171, 251, 238, 234, 41, 145, 79, 244, 124, 4, 149, 48, 10, 77>>
      [] output_size = 32 /\ input = AsBytes("alphanet1") \o AsBytes("testnet") ->
           <<165, 34, 61, 143, 158, 233, 51, 125, 18, 245, 233, 45, 230, 199, 167, 47,
             114, 55, 109, 133, 209, 3, 214, 188, 234, 80, 67, 159, 203, 62, 135, 57>>
      [] output_size = 32 /\ input = AsBytes("testnet") \o AsBytes("alphanet1") ->
           <<200, 23, 43, 161, 247, 16, 145, 83, 221, 127, 231, 29, 135, 224, 36, 36,
             249, 76, 188, 137, 70, 38, 18, 19, 46, 50, 59, 25, 236, 204, 97, 169>>
      [] output_size = 32 /\ input = AsBytes("testnet") \o AsBytes("testnet") ->
           <<3, 201, 209, 251, 162, 230, 75, 93, 196, 48, 136, 122, 97, 209, 218, 57,
             233, 242, 64, 219, 166, 185, 205, 85, 30, 11, 190, 136, 56, 27, 62, 95>>

\* hasher.finalize_variable(|res| result = res.try_into().unwrap()): the digest
\* of all the hasher has absorbed
FinalizeVariable(hasher) == Blake2b(hasher.output_size, hasher.input)

\* get_network_id after get_info has answered: the hasher absorbs
\* info.network_id.as_bytes(), and the first 8 bytes of the digest are read as a
\* little-endian u64
HashNetworkId(hasher, info) ==
    LET result == FinalizeVariable(Update(hasher, AsBytes(info.network_id)))
    IN  U64FromLeBytes(SubSeq(result, 1, 8))

\* get_network_id, given the network-id string of the node's info: the hasher
\* is created in the call
NetworkIdOf(name) == HashNetworkId(VarBlake2bNew(32), [network_id |-> name])

\* variant: an omitted flag counts as set, unwrap_or(true)
OptUnwrapOrTrue(o) == IF o = None THEN TRUE ELSE o[1]

\* Option<bool>::unwrap_or(false)
OptUnwrapOrFalse(o) == IF o = None THEN FALSE ELSE o[1]

\* variant: should_reattach is looked at before should_promote
RetryDecisionReattachFirst(meta) ==
    IF OptUnwrapOrFalse(meta.should_reattach) THEN "reattach"
    ELSE IF OptUnwrapOrFalse(meta.should_promote) THEN "promote"
    ELSE "none"

\* the if / else if / else of retry
RetryDecision(meta) ==
    IF OptUnwrapOrFalse(meta.should_promote) THEN "promote"
    ELSE IF OptUnwrapOrFalse(meta.should_reattach) THEN "reattach"
    ELSE "none"

\* promote: with_network_id, with_parent1(tips.0), with_parent2(*message_id)
PromoteMessage(network_id, tips, id) ==
    [network_id |-> network_id, parent1 |-> tips[1], parent2 |-> id, payload |-> None]

\* variant: the parents are taken the other way round
ReattachMessageSwapped(network_id, tips, payload) ==
    [network_id |-> network_id, parent1 |-> tips[2], parent2 |-> tips[1],
     payload |-> Some(payload)]

\* reattach: with_network_id, with_parent1(tips.0), with_parent2(tips.1),
\* with_payload(payload)
ReattachMessage(network_id, tips, payload) ==
    [network_id |-> network_id, parent1 |-> tips[1], parent2 |-> tips[2],
     payload |-> Some(payload)]

NoId == <<"none", 0>>

NoMsgResult == [kind |-> "none", id |-> NoId, message |-> None, error |-> "-"]

MOk(id, message) == [kind |-> "ok", id |-> id, message |-> Some(message), error |-> "-"]

MErr(e) == [kind |-> "err", id |-> NoId, message |-> None, error |-> e]

\* Err(Error::NoNeedPromoteOrReattach(message_id.to_string()))
MErrNoNeed(id) ==
    [kind |-> "err", id |-> id, message |-> None, error |-> "NoNeedPromoteOrReattach"]

\* the call did not return: it panicked
MPanic == [kind |-> "panic", id |-> NoId, message |-> None, error |-> "unwrap on None"]

OptFlags == {None, Some(TRUE), Some(FALSE)}

\* the bodies of MessageMetadata a node can answer with
Metadatas == [should_promote : OptFlags, should_reattach : OptFlags]

\* the messages a node can answer get_message().data(id) with
Originals == [payload : {None} \cup {Some(p) : p \in Payloads}]

IdleMsg ==
    /\ tipGen = 0
    /\ prevPost = None
    /\ mOp = "none"
    /\ mBody = "none"
    /\ mPc = "idle"
    /\ mId = NoId
    /\ mStartGen = 0
    /\ mIssueGen = 0
    /\ mMeta = None
    /\ mOriginal = None
    /\ mTips = None
    /\ mMessage = None
    /\ mInfo = None
    /\ mPost = None
    /\ mReqs = <<>>
    /\ mResult = NoMsgResult

\* the first request of each operation
EntryPc(op) ==
    CASE op = "retry"    -> "metadata"
      [] op = "promote"  -> "tips"
      [] op = "reattach" -> "get_message"

\* the call returns Err(e) (or panics) without issuing anything more
MFail(result) ==
    /\ mResult' = result
    /\ mPc' = "done"
    /\ mIssueGen' = 0

\* the call goes on to its next request without an await in between: get_node()?
\* reads the healthy set, and the request is sent to the node it returned; the
\* call is then suspended until the answer is there
MIssue(reqs, kind) ==
    IF sync = {}
      THEN /\ MFail(MErr("SyncedNodePoolEmpty"))
           /\ mReqs' = reqs
      ELSE /\ mReqs' = Append(reqs, kind)
           /\ mPc' = kind
           /\ mIssueGen' = IF kind = "tips" THEN tipGen ELSE 0
           /\ mResult' = NoMsgResult

\* the caller invokes retry, promote or reattach and awaits it: the call runs up
\* to its first request
MCall ==
    /\ UNCHANGED <<otherThanMsg, poolVars>>
    /\ clientPc = "alive"
    /\ mPc \in {"idle", "done"}
    /\ prevPost' = IF mPost = None THEN prevPost
                    ELSE Some([body |-> mPost[1].body, id |-> mPost[1].id,
                               message |-> mPost[1].message, info |-> mPost[1].info,
                               original |-> mPost[1].original, tips |-> mPost[1].tips,
                               postGen |-> mPost[1].postGen])
    /\ mPost' = None
    /\ \E op \in {"retry", "promote", "reattach"}, id \in MsgIds :
         /\ mOp' = op
         /\ mBody' = IF op = "retry" THEN "none" ELSE op
         /\ mId' = id
         /\ MIssue(<<>>, EntryPc(op))
    /\ mStartGen' = tipGen
    /\ mMeta' = None
    /\ mOriginal' = None
    /\ mTips' = None
    /\ mMessage' = None
    /\ mInfo' = None
    /\ UNCHANGED tipGen

\* retry: get_message().metadata(message_id).await? answers; the decision, and
\* the first request of the branch taken
MMetadata ==
    /\ UNCHANGED <<otherThanMsg, poolVars>>
    /\ mPc = "metadata"
    /\ \/ /\ MFail(MErr("Network"))
          /\ UNCHANGED <<mMeta, mBody, mReqs>>
       \/ \E meta \in Metadatas :
            /\ mMeta' = Some(meta)
            /\ LET d == RetryDecision(meta)
               IN  IF d = "none"
                     THEN MFail(MErrNoNeed(mId)) /\ UNCHANGED <<mBody, mReqs>>
                     ELSE /\ mBody' = d
                          /\ MIssue(mReqs, EntryPc(d))
    /\ UNCHANGED <<tipGen, prevPost, mOp, mId, mStartGen, mOriginal, mTips,
                   mMessage, mInfo, mPost>>

\* reattach: get_message().data(message_id).await? answers; get_tips is issued
MGetMessage ==
    /\ UNCHANGED <<otherThanMsg, poolVars>>
    /\ mPc = "get_message"
    /\ \/ /\ MFail(MErr("Network"))
          /\ UNCHANGED <<mOriginal, mReqs>>
       \/ \E m \in Originals :
            /\ mOriginal' = Some(m)
            /\ MIssue(mReqs, "tips")
    /\ UNCHANGED <<tipGen, prevPost, mOp, mBody, mId, mStartGen, mMeta,
                   mTips, mMessage, mInfo, mPost>>

\* variant: the tips of the call that posted before are used again when there
\* are any
MGetTipsCached ==
    /\ UNCHANGED <<otherThanMsg, poolVars>>
    /\ mPc = "tips"
    /\ \/ /\ MFail(MErr("Network"))
          /\ UNCHANGED <<mTips, mReqs>>
       \/ \E g \in mIssueGen..tipGen :
            /\ mTips' = IF prevPost = None THEN Some(TipsAt(g))
                        ELSE Some(prevPost[1].tips)
            /\ MIssue(mReqs, "info")
    /\ UNCHANGED <<tipGen, prevPost, mOp, mBody, mId, mStartGen, mMeta, mOriginal,
                   mMessage, mInfo, mPost>>

\* promote, reattach: let tips = self.get_tips().await? answers with the tips the
\* node reported at some moment since the request was issued; get_network_id
\* issues its get_info
MGetTips ==
    /\ UNCHANGED <<otherThanMsg, poolVars>>
    /\ mPc = "tips"
    /\ \/ /\ MFail(MErr("Network"))
          /\ UNCHANGED <<mTips, mReqs>>
       \/ \E g \in mIssueGen..tipGen :
            /\ mTips' = Some(TipsAt(g))
            /\ MIssue(mReqs, "info")
    /\ UNCHANGED <<tipGen, prevPost, mOp, mBody, mId, mStartGen, mMeta, mOriginal,
                   mMessage, mInfo, mPost>>

\* promote, reattach: self.get_network_id().await? answers, then the rest of the
\* builder chain up to finish() (reattach unwraps the payload of the fetched
\* message), and post_message issues its request
MGetNetworkId ==
    /\ UNCHANGED <<otherThanMsg, poolVars>>
    /\ mPc = "info"
    /\ \/ /\ MFail(MErr("Network"))
          /\ UNCHANGED <<mMessage, mInfo, mReqs, mPost>>
       \/ \E name \in NetworkNames, finish \in {"ok", "err"} :
            IF mBody = "reattach" /\ mOriginal[1].payload = None
              THEN MFail(MPanic) /\ UNCHANGED <<mMessage, mInfo, mReqs, mPost>>
              ELSE IF finish = "err"
                THEN /\ MFail(MErr("TransactionError"))
                     /\ UNCHANGED <<mMessage, mInfo, mReqs, mPost>>
                ELSE LET message ==
                           IF mBody = "promote"
                             THEN PromoteMessage(NetworkIdOf(name), mTips[1], mId)
                             ELSE ReattachMessage(NetworkIdOf(name), mTips[1],
                                                  mOriginal[1].payload[1])
                     IN  /\ mMessage' = Some(message)
                         /\ mInfo' = Some(name)
                         /\ MIssue(mReqs, "post")
                         /\ mPost' = IF sync = {} THEN mPost
                                     ELSE Some([body |-> mBody, id |-> mId,
                                                message |-> message, info |-> name,
                                                original |-> mOriginal,
                                                tips |-> mTips[1],
                                                startGen |-> mStartGen,
                                                postGen |-> tipGen])
    /\ UNCHANGED <<tipGen, prevPost, mOp, mBody, mId, mStartGen, mMeta,
                   mOriginal, mTips>>

\* promote, reattach: self.post_message(&message).await? answers, then
\* Ok((id, message))
MPost ==
    /\ UNCHANGED <<otherThanMsg, poolVars>>
    /\ mPc = "post"
    /\ \/ MFail(MErr("Network"))
       \/ \E new \in NewIds : MFail(MOk(new, mMessage[1]))
    /\ UNCHANGED <<tipGen, prevPost, mOp, mBody, mId, mStartGen, mMeta,
                   mOriginal, mTips, mMessage, mInfo, mPost, mReqs>>

\* the tips the nodes report move on
TipsAdvance ==
    /\ UNCHANGED <<otherThanMsg, poolVars>>
    /\ tipGen < MaxTipGen
    /\ tipGen' = tipGen + 1
    /\ UNCHANGED <<prevPost, mOp, mBody, mPc, mId, mStartGen, mIssueGen,
                   mMeta, mOriginal, mTips, mMessage, mInfo, mPost, mReqs, mResult>>

----------------------------------------------------------------------------
(* Client::get_network_id *)

\* the NodeInfo answers of a node, as far as get_network_id reads them
NodeInfos == {[network_id |-> name] : name \in NetworkNames}

NoReq == [url |-> "-", pool |-> {}]

NoNetResult ==
    [kind |-> "none", error |-> "-", url |-> "-", pool |-> {}, reported |-> "-",
     value |-> <<>>]

\* Err(e), returned to the caller by `?`
NErr(e, req) ==
    [kind |-> "err", error |-> e, url |-> req.url, pool |-> req.pool,
     reported |-> "-", value |-> <<>>]

\* Ok(network_id), with the node that was asked and what it reported
NOk(value, req, info) ==
    [kind |-> "ok", error |-> "-", url |-> req.url, pool |-> req.pool,
     reported |-> info.network_id, value |-> value]

IdleNet ==
    /\ nPc = "idle"
    /\ nReq = NoReq
    /\ nResult = NoNetResult
    /\ nPrev = None

\* get_network_id is called: get_info takes a node with get_node()? and issues
\* GET api/v1/info to it
NCall ==
    /\ UNCHANGED otherThanNet
    /\ clientPc = "alive"
    /\ nPc \in {"idle", "done"}
    /\ nPrev' = IF nResult.kind = "ok" THEN Some(nResult) ELSE nPrev
    /\ \E r \in GetNodeResults(sync) :
         IF r.res = "empty"
           THEN /\ nResult' = NErr("SyncedNodePoolEmpty", [url |-> "-", pool |-> sync])
                /\ nPc' = "done"
                /\ nReq' = NoReq
           ELSE /\ nReq' = [url |-> r.url, pool |-> sync]
                /\ nPc' = "info"
                /\ nResult' = NoNetResult

\* variant: the hasher is kept in the Client and absorbs every call's string
NGetInfoHasherKept ==
    /\ UNCHANGED otherThanNet
    /\ nPc = "info"
    /\ \/ nResult' = NErr("Network", nReq)
       \/ \E info \in NodeInfos :
            LET hasher == IF nPrev = None
                            THEN VarBlake2bNew(32)
                            ELSE Update(VarBlake2bNew(32), AsBytes(nPrev[1].reported))
            IN  nResult' = NOk(HashNetworkId(hasher, info), nReq, info)
    /\ nPc' = "done"
    /\ nReq' = NoReq
    /\ UNCHANGED nPrev

\* self.get_info().await? answers, with an error or with the node's info, and
\* the rest of get_network_id runs: Ok(network_id)
NGetInfo ==
    /\ UNCHANGED otherThanNet
    /\ nPc = "info"
    /\ \/ nResult' = NErr("Network", nReq)
       \/ \E info \in NodeInfos :
            nResult' = NOk(NetworkIdOf(info.network_id), nReq, info)
    /\ nPc' = "done"
    /\ nReq' = NoReq
    /\ UNCHANGED nPrev

Init == InitSync /\ IdleUnspent /\ IdlePow /\ IdleMsg /\ IdleNet

Next ==
    \/ DelayElapses
    \/ TimerFires
    \/ ProbeDone
    \/ KillObserved
    \/ RecvClosed
    \/ GetNode
    \/ DropSend
    \/ DropRuntimeTake
    \/ DropTeardown
    \/ RuntimeShutdownBackground
    \/ ExternalRuntimeShutdown

Spec == Init /\ [][Next]_vars

\* a Client with one configured node, found healthy, and whose task is idle
IdleSync ==
    /\ nodes = <<"n1">>
    /\ lastOutcomes = <<"healthy">>
    /\ sync = {"n1"}
    /\ runtimeOwned = TRUE
    /\ clientPc = "alive"
    /\ senderAlive = TRUE
    /\ killChan = 0
    /\ taskPc = "delay"
    /\ probeIdx = 0
    /\ synced_nodes = {}
    /\ probeLog = <<>>
    /\ killObserved = FALSE
    /\ cycleAfterKill = FALSE
    /\ nodeRead = NoRead
    /\ closedSeen = FALSE
    /\ replaced = FALSE
    /\ dropLog = <<>>
    /\ cycleSync = sync
    /\ cycleWrites = 0
    /\ cancelled = NoCancel
    /\ delayElapsed = FALSE

InitUnspent == IdleSync /\ InitUnspentInputs /\ IdlePow /\ IdleMsg /\ IdleNet

NextUnspent ==
    \/ UStart
    \/ UBalance

SpecUnspent == InitUnspent /\ [][NextUnspent]_vars

\* a call that is awaited goes on as long as its requests are answered
SpecUnspentFair == InitUnspent /\ [][NextUnspent]_vars /\ WF_vars(NextUnspent)

InitPow == IdleSync /\ IdleUnspent /\ InitPowInputs /\ IdleMsg /\ IdleNet

NextPow == PowNonce

SpecPow == InitPow /\ [][NextPow]_vars

InitMsg == IdleSync /\ IdleUnspent /\ IdlePow /\ IdleMsg /\ IdleNet

NextMsg ==
    \/ MCall
    \/ MMetadata
    \/ MGetMessage
    \/ MGetTips
    \/ MGetNetworkId
    \/ MPost
    \/ TipsAdvance
    \/ DelayElapses
    \/ TimerFires
    \/ ProbeDone

SpecMsg == InitMsg /\ [][NextMsg]_vars

\* a Client with two configured nodes, both found healthy, and whose task is idle
TwoNodeSync ==
    /\ nodes = <<"n1", "n2">>
    /\ lastOutcomes = <<"healthy", "healthy">>
    /\ sync = {"n1", "n2"}
    /\ runtimeOwned = TRUE
    /\ clientPc = "alive"
    /\ senderAlive = TRUE
    /\ killChan = 0
    /\ taskPc = "delay"
    /\ probeIdx = 0
    /\ synced_nodes = {}
    /\ probeLog = <<>>
    /\ killObserved = FALSE
    /\ cycleAfterKill = FALSE
    /\ nodeRead = NoRead
    /\ closedSeen = FALSE
    /\ replaced = FALSE
    /\ dropLog = <<>>
    /\ cycleSync = sync
    /\ cycleWrites = 0
    /\ cancelled = NoCancel
    /\ delayElapsed = FALSE

InitNet == TwoNodeSync /\ IdleUnspent /\ IdlePow /\ IdleMsg /\ IdleNet

\* get_network_id is called again and again while the task resyncs the pool
NextNet ==
    \/ NCall
    \/ NGetInfo
    \/ DelayElapses
    \/ TimerFires
    \/ ProbeDone

SpecNet == InitNet /\ [][NextNet]_vars

----------------------------------------------------------------------------
(* Properties *)

\* the nodes of the list that answered healthy in the given outcomes
HealthyAnswers(outcomes) ==
    {nodes[i] : i \in {j \in 1..Len(nodes) : outcomes[j] = "healthy"}}

\* C1: the healthy set is exactly the set of configured nodes whose probe
\* answered healthy in the last completed sync cycle; nothing stale is kept and
\* it is empty when no probe answered healthy.
C1_HealthySetExact == sync = HealthyAnswers(lastOutcomes)

\* a cycle of the task has emptied a pool that held a node, one probe having failed
C1_Witness ==
    /\ replaced
    /\ taskPc = "delay"
    /\ cycleWrites = 1
    /\ cycleSync # {}
    /\ sync = {}
    /\ \E i \in 1..Len(lastOutcomes) : lastOutcomes[i] = "error"

\* C2: once the task has observed the cancellation signal it has terminated,
\* and no probe cycle is started afterwards.
C2_CancelTerminates ==
    killObserved => (taskPc \in {"exited", "aborted"} /\ ~cycleAfterKill)

\* C3: a result Ok((a, i)) names the smallest index i >= start_index with
\* balance 0, a is the address derived at i, and every index in [start_index, i)
\* was queried and had a nonzero balance.
C3_FirstZeroBalance ==
    uResult.kind = "ok" =>
        LET s == IF uStart = None THEN 0 ELSE uStart[1]
            i == uResult.index
        IN  /\ i >= s
            /\ uBalance[i] = 0
            /\ uResult.address = Derive(i)
            /\ \A j \in s..(i - 1) :
                 /\ uBalance[j] # 0
                 /\ \E q \in 1..Len(uQueries) : uQueries[q] = Derive(j)

\* the first zero balance lies in the second batch of a scan started past 0
C3_Witness ==
    /\ uResult.kind = "ok"
    /\ uStart # None
    /\ uStart[1] > 0
    /\ uResult.index >= uStart[1] + BatchSize

\* C4: without a path get() fails with MissingParameter("BIP32 path"), and no
\* address derivation and no balance query has been issued.
C4_MissingPath ==
    (~uPath /\ uPc \notin {"start", "idle"}) =>
        /\ uPc = "done"
        /\ uResult = UErr("MissingParameter(BIP32 path)")
        /\ uDerives = <<>>
        /\ uQueries = <<>>

\* get() has returned for a builder with an index and no path
C4_Witness == ~uPath /\ uStart # None /\ uPc = "done"

\* C8: get_node() returns a member of the healthy set it read, fails with
\* SyncedNodePoolEmpty exactly when that set was empty, and is never blocked.
C8_GetNodeFromPool ==
    /\ nodeRead.res = "ok" => nodeRead.url \in nodeRead.pool
    /\ nodeRead.res = "empty" => nodeRead.pool = {}
    /\ (nodeRead.res # "none" /\ nodeRead.pool = {}) => nodeRead.res = "empty"
    /\ clientPc = "alive" => ENABLED GetNode

\* get_node() has failed on the empty pool while a sync cycle was in progress
C8_Witness == nodeRead.res = "empty" /\ taskPc = "probe" /\ synced_nodes # {}

\* C10: the set a get_node() reads is the complete result of the last completed
\* cycle (the one before the cycle in progress, if one is), never the nodes
\* collected so far by a cycle in progress.
C10_NoPartialSet ==
    nodeRead.res # "none" => nodeRead.pool = HealthyAnswers(lastOutcomes)

\* a read during a cycle that has already collected a node the reader did not see
C10_Witness ==
    /\ nodeRead.res = "ok"
    /\ taskPc = "probe"
    /\ probeIdx > 1
    /\ synced_nodes # {}
    /\ synced_nodes # nodeRead.pool

\* C9: in remote mode nonce() returns Ok(0) for every payload and target score
\* and runs no search; in local mode a returned nonce scores at least the target
\* on the payload, and a failed search is returned as a Pow error after a single
\* search.
C9_PowNonce ==
    powLast.kind # "none" =>
        /\ ~local_pow =>
             (powLast.kind = "ok" /\ powLast.nonce = 0 /\ powLast.searches = 0)
        /\ (local_pow /\ powLast.kind = "ok") =>
             (Score(powLast.payload, powLast.nonce) >= powLast.target
                /\ powLast.searches = 1)
        /\ (local_pow /\ powLast.kind = "err") =>
             (powLast.error = "Pow" /\ powLast.searches = 1)

\* a local search has met the highest target score with a nonce other than 0
C9_Witness ==
    /\ local_pow
    /\ powLast.kind = "ok"
    /\ powLast.target = MaxTarget
    /\ powLast.nonce > 0

\* the metadata flag is false or omitted
FlagNotSet(flag) == flag \in {None, Some(FALSE)}

\* C5: a retry whose metadata reports neither should_promote nor
\* should_reattach (false or omitted) fails with NoNeedPromoteOrReattach(id),
\* having issued the metadata request only: no tips fetch and no post.
C5_RetryNoNeed ==
    (/\ mOp = "retry"
     /\ mMeta # None
     /\ FlagNotSet(mMeta[1].should_promote)
     /\ FlagNotSet(mMeta[1].should_reattach)) =>
        /\ mPc = "done"
        /\ mResult.kind = "err"
        /\ mResult.error = "NoNeedPromoteOrReattach"
        /\ mResult.id = mId
        /\ mReqs = <<"metadata">>
        /\ mPost = None

\* retry has returned on metadata that omits one flag and denies the other
C5_Witness ==
    /\ mOp = "retry"
    /\ mPc = "done"
    /\ mMeta = Some([should_promote |-> None, should_reattach |-> Some(FALSE)])

\* C6: a message posted by promote has parents (tip1, original id), tip1
\* being the tip1 the nodes reported at some moment between the start of the call
\* and its post, and the call's get_tips precedes its post; so two successive
\* promotes with the tips changing in between post different parent1.
C6_PromoteFreshTips ==
    /\ (mPost # None /\ mPost[1].body = "promote") =>
          /\ mPost[1].message.parent2 = mPost[1].id
          /\ \E g \in mPost[1].startGen..mPost[1].postGen :
                mPost[1].message.parent1 = TipsAt(g)[1]
    /\ (mPost # None /\ mPost[1].body = "promote") =>
          \E i \in 1..Len(mReqs), j \in 1..Len(mReqs) :
             i < j /\ mReqs[i] = "tips" /\ mReqs[j] = "post"
    /\ (/\ mPost # None
        /\ prevPost # None
        /\ mPost[1].body = "promote"
        /\ prevPost[1].body = "promote"
        /\ prevPost[1].postGen < mPost[1].startGen) =>
          mPost[1].message.parent1 # prevPost[1].message.parent1

\* two promotes have posted, the tips having changed between the two calls
C6_Witness ==
    /\ mOp = "promote"
    /\ mPost # None
    /\ prevPost # None
    /\ prevPost[1].body = "promote"
    /\ prevPost[1].postGen < mPost[1].startGen
    /\ mResult.kind = "ok"

\* C7: reattach of a message without payload returns an error value to the
\* caller, does not panic, and posts nothing.
C7_ReattachNoPayload ==
    (/\ mBody = "reattach"
     /\ mOriginal # None
     /\ mOriginal[1].payload = None
     /\ mPc = "done") =>
        /\ mResult.kind = "err"
        /\ mPost = None

\* C11: drop first sends the kill signal and only then shuts down a runtime the
\* Client owns (and shuts none down otherwise); when the signal cannot be
\* delivered because no Receiver is live, drop ends in a panic and not silently.
C11_DropOrder ==
    /\ clientPc = "alive" => dropLog = <<>>
    /\ clientPc = "sent" => dropLog = <<"send">>
    /\ clientPc \in {"shutdown", "dropped"} =>
          dropLog = IF runtimeOwned THEN <<"send", "shutdown">> ELSE <<"send">>
    /\ (runtimeOwned /\ taskPc = "aborted") => dropLog = <<"send", "shutdown">>
    /\ clientPc = "panicked" => dropLog = <<"send_failed">>
    /\ (dropLog # <<>> /\ dropLog[1] = "send_failed") => clientPc = "panicked"

\* the Client was dropped after the runtime it does not own had been shut down
C11_Witness == clientPc = "panicked" /\ ~runtimeOwned /\ taskPc = "aborted"

IsPrefix(a, b) == Len(a) <= Len(b) /\ a = SubSeq(b, 1, Len(a))

\* the requests of retry when it takes the given branch, in order
RetryRequests(branch) ==
    CASE branch = "promote"  -> <<"metadata", "tips", "info", "post">>
      [] branch = "reattach" -> <<"metadata", "get_message", "tips", "info", "post">>
      [] OTHER               -> <<"metadata">>

\* C12: a retry call takes one branch: promote when should_promote is set, also
\* when should_reattach is set too; reattach when only should_reattach is set;
\* its requests are those of that one branch, so it posts at most one message.
C12_RetryOneDecision ==
    (mOp = "retry" /\ mMeta # None) =>
        LET meta == mMeta[1]
            branch == IF ~FlagNotSet(meta.should_promote) THEN "promote"
                      ELSE IF ~FlagNotSet(meta.should_reattach) THEN "reattach"
                      ELSE "none"
        IN  /\ mBody = branch
            /\ IsPrefix(mReqs, RetryRequests(branch))
            /\ Cardinality({k \in 1..Len(mReqs) : mReqs[k] = "post"}) <= 1
            /\ mPost # None => mPost[1].body = branch

\* a retry whose metadata set both flags has posted its promotion
C12_Witness ==
    /\ mOp = "retry"
    /\ mMeta = Some([should_promote |-> Some(TRUE), should_reattach |-> Some(TRUE)])
    /\ mPost # None
    /\ mPost[1].body = "promote"
    /\ mReqs = <<"metadata", "tips", "info", "post">>

\* C13: the value get_network_id returns is a 64-bit value fixed by the
\* network-id string the queried node reported, and by nothing else: it is the
\* little-endian reading of the first 8 bytes of that string's 32-byte BLAKE2b
\* digest in every run, and two calls whose node reported the same string
\* returned the same value, whichever node was asked, whatever the healthy set
\* held and whatever the calls before them returned.
C13_NetworkIdDeterministic ==
    /\ nResult.kind = "ok" =>
          /\ Len(nResult.value) = 4
          /\ \A i \in 1..4 : nResult.value[i] \in 0..65535
          /\ nResult.value = U64FromLeBytes(Blake2b256Head(nResult.reported))
    /\ (nResult.kind = "ok" /\ nPrev # None
                            /\ nPrev[1].reported = nResult.reported) =>
          nResult.value = nPrev[1].value

\* two calls were answered the same network-id string by different nodes, taken
\* from healthy sets that differ because the task has replaced the set between
\* them
C13_Witness ==
    /\ nPrev # None
    /\ nResult.kind = "ok"
    /\ nPrev[1].reported = nResult.reported
    /\ nPrev[1].url # nResult.url
    /\ nPrev[1].pool # nResult.pool
    /\ replaced

\* C14: when the task takes the kill signal while sync_nodes is in flight, what
\* that cycle had collected is thrown away: the healthy set is still the one from
\* before the cycle started, and stays so until a later cycle replaces it.
C14_CancelledCycleNoWrite ==
    cancelled # NoCancel => (sync = cycleSync /\ taskPc # "probe")

\* a cycle was cut short after its first probe had found a node healthy which the
\* healthy set does not hold
C14_Witness ==
    /\ cancelled # NoCancel
    /\ cancelled.done >= 1
    /\ cancelled.found # {}
    /\ ~(cancelled.found \subseteq sync)

\* the step ends a cycle: the last probe of sync_nodes answers, or sync_nodes runs
\* over an empty node list
CycleCompletes ==
    \/ /\ taskPc = "probe"
       /\ Len(probeLog) = Len(nodes) - 1
       /\ taskPc' = "delay"
       /\ lastOutcomes' \in [1..Len(nodes) -> Outcomes]
       /\ cancelled' = NoCancel
    \/ /\ taskPc = "delay"
       /\ delayElapsed
       /\ ~delayElapsed'
       /\ Len(nodes) = 0
       /\ cycleSync' = sync
       /\ cycleWrites' = 1

\* the step is a get_node call that returned
GetNodeReturns == nodeRead' # nodeRead /\ nodeRead' # NoRead

\* C15: the healthy set changes only in the step that completes a sync cycle, a
\* cycle writes it once when it completes and not before, and a get_node call,
\* through which every foreground operation reaches the set, leaves it as it was
\* whether it returns a node or SyncedNodePoolEmpty.
C15_OnlySyncWrites ==
    [][ /\ sync' # sync => CycleCompletes
        /\ cycleWrites' # cycleWrites => (CycleCompletes \/ cycleWrites' = 0)
        /\ CycleCompletes => cycleWrites' = 1
        /\ taskPc' = "probe" => cycleWrites' = 0
        /\ GetNodeReturns => (sync' = sync /\ cycleWrites' = cycleWrites)
      ]_vars

\* a cycle has completed and written once, and a get_node call has since read the
\* pool it left
C15_Witness ==
    /\ replaced
    /\ cycleWrites = 1
    /\ sync # cycleSync
    /\ nodeRead # NoRead
    /\ nodeRead.pool = sync
    /\ taskPc = "delay"

\* C16: a probe that fails counts as an unhealthy answer of that node and nothing
\* more: the cycle goes on to the next node with what it has collected, leaves
\* its probes only by the replacement (or by the kill branch or a runtime
\* shutdown), the task stays in its loop, and get_node returns a node or
\* SyncedNodePoolEmpty, never the probe's error.
C16_ProbeFailureSwallowed ==
    [][ /\ (taskPc = "probe" /\ taskPc' = "probe" /\ probeLog' # probeLog) =>
              /\ probeIdx' = probeIdx + 1
              /\ Len(probeLog') = Len(probeLog) + 1
              /\ SubSeq(probeLog', 1, Len(probeLog)) = probeLog
              /\ synced_nodes' = IF probeLog'[Len(probeLog')] = "healthy"
                                   THEN synced_nodes \cup {nodes[probeIdx]}
                                   ELSE synced_nodes
              /\ sync' = sync
        /\ (taskPc = "probe" /\ taskPc' = "delay" /\ cancelled' = NoCancel) =>
              /\ cycleWrites' = 1
              /\ Len(lastOutcomes') = Len(nodes)
              /\ SubSeq(lastOutcomes', 1, Len(probeLog)) = probeLog
              /\ sync' = IF lastOutcomes'[Len(nodes)] = "healthy"
                           THEN synced_nodes \cup {nodes[probeIdx]}
                           ELSE synced_nodes
        /\ taskPc' \in {"delay", "probe", "aborted"}
        /\ (taskPc # "aborted" /\ taskPc' = "aborted") =>
              (clientPc' \in {"shutdown", "dropped"} \/ ~runtimeOwned)
        /\ GetNodeReturns =>
              /\ nodeRead'.res \in {"ok", "empty"}
              /\ nodeRead'.res = "empty" <=> sync = {}
      ]_vars

\* a cycle whose first probe failed has replaced the healthy set by the second
\* node alone, and get_node has since returned that node
C16_Witness ==
    /\ replaced
    /\ Len(nodes) = 2
    /\ nodes[1] # nodes[2]
    /\ lastOutcomes = <<"error", "healthy">>
    /\ sync = {nodes[2]}
    /\ cycleSync = {nodes[1]}
    /\ cycleWrites = 1
    /\ taskPc = "delay"
    /\ nodeRead.res = "ok"
    /\ nodeRead.url = nodes[2]

\* the index a scan starts from
ScanStart == IF uStart = None THEN 0 ELSE uStart[1]

\* C17: the balance queries of one call are those for start, start + 1, ... in
\* that order with no gap and no repeat; every query but the last met a nonzero
\* balance; a result with index i comes after exactly i - start + 1 queries; the
\* batches asked for are [start + 20k, start + 20k + 20) for k = 0, 1, ..., and
\* a batch is asked for only when every address of the one before it has been
\* queried and had a nonzero balance.
C17_ContiguousQueries ==
    LET s == ScanStart
    IN  /\ \A k \in 1..Len(uQueries) : uQueries[k] = Derive(s + k - 1)
        /\ \A k \in 1..(Len(uQueries) - 1) : uBalance[s + k - 1] # 0
        /\ uResult.kind = "ok" =>
              /\ Len(uQueries) = uResult.index - s + 1
              /\ uPc = "done"
        /\ \A k \in 1..Len(uDerives) :
              uDerives[k] = <<s + BatchSize * (k - 1), s + BatchSize * k>>
        /\ Len(uDerives) > 0 =>
              /\ Len(uQueries) >= BatchSize * (Len(uDerives) - 1)
              /\ Len(uQueries) <= BatchSize * Len(uDerives)
              /\ \A j \in s..(s + BatchSize * (Len(uDerives) - 1) - 1) :
                    uBalance[j] # 0
        /\ Len(uDerives) = 0 => Len(uQueries) = 0

\* a scan started past 0 has asked for its second batch and found the zero
\* balance inside it, not at its first address
C17_Witness ==
    /\ uResult.kind = "ok"
    /\ ScanStart > 0
    /\ Len(uDerives) = 2
    /\ Len(uQueries) > BatchSize + 1
    /\ uResult.index = ScanStart + Len(uQueries) - 1

\* C18: the first request that fails, a batch derivation or a balance query,
\* ends the call there and then with that request's error: the call carries no
\* address and index, the failed query is the last one issued, and nothing is
\* derived or queried afterwards.
C18_FirstFailureReturned ==
    [][ /\ uFailed' # None =>
              /\ uPc' = "done"
              /\ uResult' = UErr(uFailed'[1][1])
              /\ uFailed'[1][1] = "balance" =>
                    uQueries'[Len(uQueries')] = uFailed'[1][2]
              /\ uFailed'[1][1] = "find_addresses" =>
                    uDerives'[Len(uDerives')][1] = uFailed'[1][2][2]
        /\ uFailed # None => UNCHANGED <<uQueries, uDerives, uResult, uFailed>>
      ]_vars

\* the balance query of an address past the first of the second batch has failed
C18_Witness ==
    /\ uFailed # None
    /\ uFailed[1][1] = "balance"
    /\ uFailed[1][2][2] > ScanStart + BatchSize
    /\ uPc = "done"
    /\ uResult.kind = "err"

\* the indices a scan gets to within MaxBatches batches
ScanReach == ScanStart..(ScanStart + BatchSize * MaxBatches - 1)

\* C19: a call with a path returns only with a zero-balance address or with the
\* error of a failed request; when an index from the start on has a zero balance
\* the call returns, with that result unless a request failed; and when no index
\* has, and no request fails, the call does not return however many batches it
\* has gone through.
C19_ReturnsOnlyOnZeroOrError ==
    /\ []((uPath /\ uPc = "done") =>
            \/ uResult.kind = "ok" /\ uBalance[uResult.index] = 0
            \/ uResult.kind = "err" /\ uFailed # None)
    /\ []((uPath /\ uFailed = None /\ \A j \in ScanReach : uBalance[j] # 0) =>
            uPc # "done")
    /\ (uPath /\ \E j \in ScanReach : uBalance[j] = 0) =>
            <>(uPc = "done" /\ (uFailed = None => uResult.kind = "ok"))

\* every batch so far held used addresses only, no request has failed, and the
\* call is about to ask for one more batch
C19_Witness ==
    /\ uPath
    /\ uFailed = None
    /\ Len(uDerives) = MaxBatches
    /\ Len(uQueries) = BatchSize * MaxBatches
    /\ uPc = "derive"
    /\ uResult = NoResult

\* the requests of a reattach call, in order
ReattachRequests == <<"get_message", "tips", "info", "post">>

\* C20: a reattach call issues its requests in the order get_message, get_tips,
\* get_info (for the network id), post_message; the message it posts has the
\* payload of the message fetched in this call, parents (tip1, tip2) as its own
\* get_tips returned them, which are tips the nodes reported during the call, and
\* the network id of the network-id string fetched in this call; so after the
\* tips have moved on, a second reattach posts other parents than the first.
C20_ReattachFreshInputs ==
    /\ (mOp = "reattach") => IsPrefix(mReqs, ReattachRequests)
    /\ (mOp = "retry" /\ mBody = "reattach") =>
          IsPrefix(mReqs, <<"metadata">> \o ReattachRequests)
    /\ (mPost # None /\ mPost[1].body = "reattach") =>
          LET p == mPost[1]
          IN  /\ p.original # None
              /\ p.message.payload = p.original[1].payload
              /\ p.message.payload # None
              /\ <<p.message.parent1, p.message.parent2>> = p.tips
              /\ \E g \in p.startGen..p.postGen : p.tips = TipsAt(g)
              /\ p.message.network_id = U64FromLeBytes(Blake2b256Head(p.info))
    /\ (/\ mPost # None
        /\ prevPost # None
        /\ mPost[1].body = "reattach"
        /\ prevPost[1].body = "reattach"
        /\ prevPost[1].postGen < mPost[1].startGen) =>
          /\ mPost[1].message.parent1 # prevPost[1].message.parent1
          /\ mPost[1].message.parent2 # prevPost[1].message.parent2

\* two reattach calls have posted, the second after the tips had moved on, with
\* another payload and on another network-id string than the first
C20_Witness ==
    /\ mOp = "reattach"
    /\ mReqs = ReattachRequests
    /\ mPost # None
    /\ prevPost # None
    /\ prevPost[1].body = "reattach"
    /\ prevPost[1].postGen < mPost[1].startGen
    /\ prevPost[1].message.payload # mPost[1].message.payload
    /\ prevPost[1].info # mPost[1].info
    /\ mResult.kind = "ok"

\* the step starts a sync_nodes of the task by issuing its first probe, which is
\* left in flight or dropped at once by the kill branch of the same poll
CycleStarts ==
    \/ taskPc # "probe" /\ taskPc' = "probe"
    \/ taskPc = "delay" /\ cancelled' # cancelled

\* the step ends a sync_nodes of the task, by its replacement or by being dropped
CycleEnds == taskPc = "probe" /\ taskPc' # "probe"

\* the step replaces the healthy set
Replaces ==
    \/ replaced' # replaced
    \/ cycleWrites' > cycleWrites
    \/ sync' # sync
    \/ lastOutcomes' # lastOutcomes

\* C21: the task starts a cycle, and so probes and replaces the healthy set, only
\* when the delay of its loop iteration has run out, the first time included;
\* that delay begins anew when a cycle ends, so a full interval lies between two
\* cycles; and a cycle starts only when none is in progress.
C21_DelayBeforeEachCycle ==
    [][ /\ CycleStarts => (taskPc = "delay" /\ delayElapsed)
        /\ (CycleEnds \/ Replaces) => ~delayElapsed'
        /\ (delayElapsed' /\ ~delayElapsed) => (taskPc = "delay" /\ taskPc' = "delay")
        /\ (probeLog' # probeLog /\ probeLog' # <<>>) => taskPc = "probe"
        /\ Replaces => (taskPc = "probe" \/ (taskPc = "delay" /\ delayElapsed))
        /\ taskPc' = "probe" => ~delayElapsed'
        /\ (~replaced /\ ~delayElapsed /\ taskPc = "delay") =>
              (~Replaces /\ probeLog' = probeLog /\ taskPc' # "probe")
      ]_vars

\* the task has completed a cycle, waited out the delay of the next iteration
\* and is in its second cycle
C21_Witness ==
    /\ replaced
    /\ cycleWrites = 0
    /\ taskPc = "probe"
    /\ probeIdx = 2
    /\ ~delayElapsed
    /\ ~killObserved

\* how often a call has issued a request of the given kind
Issued(kind) == Cardinality({k \in 1..Len(mReqs) : mReqs[k] = kind})

\* C22: a promote, reattach or retry call issues each of its requests at most
\* once; when a step before the post fails the call ends by returning an error
\* to its caller, having posted nothing; and it returns Ok((id, message)) only
\* after exactly one post, which succeeded and answered that id for that message.
C22_FailuresReturnedOnce ==
    /\ \A kind \in {"metadata", "get_message", "tips", "info", "post"} :
          Issued(kind) <= 1
    /\ mPc = "done" => mResult.kind \in {"ok", "err"}
    /\ (mPc = "done" /\ mMessage = None) =>
          /\ mResult.kind = "err"
          /\ mPost = None
          /\ Issued("post") = 0
    /\ mResult.kind = "err" => mPc = "done"
    /\ mResult.kind = "ok" =>
          /\ mPc = "done"
          /\ Issued("post") = 1
          /\ mPost # None
          /\ mResult.message = Some(mPost[1].message)
          /\ mResult.id \in NewIds

====
